---------------------------- MODULE Spec2Model ----------------------------
(***************************************************************************)
(* Model of vulkano/src/instance/debug.rs: the flag sets MessageType and   *)
(* MessageSeverity, MessageFilter, and the DebugCallback registration      *)
(* object with its extern "system" trampoline `callback`.                  *)
(***************************************************************************)
EXTENDS Integers, Sequences, FiniteSets, TLC

(***************************************************************************)
(* u32 bit operations.  The flag sets wrap a u32 and use the primitive     *)
(* operators |, & and ^ on it; they are computed here bit by bit on        *)
(* non-negative integers.                                                  *)
(***************************************************************************)
RECURSIVE u32_or(_, _)
u32_or(x, y) ==
    IF x = 0 /\ y = 0 THEN 0
    ELSE (IF (x % 2) + (y % 2) > 0 THEN 1 ELSE 0) + 2 * u32_or(x \div 2, y \div 2)

RECURSIVE u32_and(_, _)
u32_and(x, y) ==
    IF x = 0 \/ y = 0 THEN 0
    ELSE ((x % 2) * (y % 2)) + 2 * u32_and(x \div 2, y \div 2)

RECURSIVE u32_xor(_, _)
u32_xor(x, y) ==
    IF x = 0 /\ y = 0 THEN 0
    ELSE (((x % 2) + (y % 2)) % 2) + 2 * u32_xor(x \div 2, y \div 2)

(***************************************************************************)
(* MessageType (debug.rs 195-250, 316-320).                                *)
(***************************************************************************)
MessageType_GENERAL == 1
MessageType_VALIDATION == 2
MessageType_PERFORMANCE == 4

MessageType_bitor_drops_rhs(self, rhs) == self
MessageType_bitor(self, rhs) == u32_or(self, rhs)

MessageType_bitor_assign(self, rhs) == u32_or(self, rhs)

MessageType_bitand(self, rhs) == u32_and(self, rhs)

\* line 235: self.0 = self.0 & self.0
MessageType_bitand_assign(self, rhs) == u32_and(self, self)

MessageType_bitxor(self, rhs) == u32_xor(self, rhs)

MessageType_bitxor_assign(self, rhs) == u32_xor(self, rhs)

MessageType_eq(self, other) == self = other

MessageType_all ==
    MessageType_bitor(MessageType_bitor(MessageType_GENERAL, MessageType_VALIDATION),
                      MessageType_PERFORMANCE)

MessageType_none == 0

(***************************************************************************)
(* MessageSeverity (debug.rs 254-314).                                     *)
(***************************************************************************)
MessageSeverity_VERBOSE == 1
MessageSeverity_INFO == 16
MessageSeverity_WARNING == 256
MessageSeverity_ERROR == 4096

MessageSeverity_bitor(self, rhs) == u32_or(self, rhs)

MessageSeverity_bitor_assign(self, rhs) == u32_or(self, rhs)

MessageSeverity_bitand_assign(self, rhs) == u32_and(self, rhs)

MessageSeverity_bitxor_assign(self, rhs) == u32_xor(self, rhs)

MessageSeverity_bitxor(self, rhs) == u32_xor(self, rhs)

MessageSeverity_bitand(self, rhs) == u32_and(self, rhs)

MessageSeverity_eq(self, other) == self = other

MessageSeverity_all ==
    MessageSeverity_bitor(
        MessageSeverity_bitor(
            MessageSeverity_bitor(MessageSeverity_VERBOSE, MessageSeverity_INFO),
            MessageSeverity_WARNING),
        MessageSeverity_ERROR)

MessageSeverity_none == 0

(***************************************************************************)
(* MessageFilter (debug.rs 402-431).                                       *)
(***************************************************************************)
MessageFilter_all ==
    [severity |-> MessageSeverity_all, types |-> MessageType_all]

MessageFilter_none ==
    [severity |-> MessageSeverity_none, types |-> MessageType_none]

MessageFilter_errors_and_warnings ==
    [severity |-> MessageSeverity_bitor(MessageSeverity_WARNING, MessageSeverity_ERROR),
     types    |-> MessageType_bitor(MessageType_VALIDATION, MessageType_GENERAL)]


(***************************************************************************)
(* Bounds of the model.                                                    *)
(***************************************************************************)
MaxHandles == 2
MaxThreads == 2
MaxEvents == 2

Handles == 1..MaxHandles
Threads == 1..MaxThreads

(***************************************************************************)
(* Foreign memory.  A C string pointer is NULL or points at bytes that end *)
(* with a NUL; a foreign array is a pointer to entries plus a count.       *)
(***************************************************************************)
NullPtr == [null |-> TRUE, mem |-> <<>>]
CStrPtr(bytes) == [null |-> FALSE, mem |-> bytes \o <<0>>]

\* CStr::from_ptr: the bytes before the first NUL.
RECURSIVE CStr_from_ptr(_)
CStr_from_ptr(mem) ==
    IF mem = <<>> \/ Head(mem) = 0 THEN <<>>
    ELSE <<Head(mem)>> \o CStr_from_ptr(Tail(mem))

utf8_cont(b) == b >= 128 /\ b <= 191

\* CStr::to_str: Ok exactly when the bytes are well-formed UTF-8.
RECURSIVE to_str_ok(_)
to_str_ok(s) ==
    IF s = <<>> THEN TRUE
    ELSE LET b == Head(s)
             n == Len(s)
         IN  IF b < 128 THEN to_str_ok(Tail(s))
             ELSE IF b >= 194 /\ b <= 223
             THEN n >= 2 /\ utf8_cont(s[2]) /\ to_str_ok(SubSeq(s, 3, n))
             ELSE IF b >= 224 /\ b <= 239
             THEN /\ n >= 3
                  /\ utf8_cont(s[2])
                  /\ (b = 224 => s[2] >= 160)
                  /\ (b = 237 => s[2] <= 159)
                  /\ utf8_cont(s[3])
                  /\ to_str_ok(SubSeq(s, 4, n))
             ELSE IF b >= 240 /\ b <= 244
             THEN /\ n >= 4
                  /\ utf8_cont(s[2])
                  /\ (b = 240 => s[2] >= 144)
                  /\ (b = 244 => s[2] <= 143)
                  /\ utf8_cont(s[3])
                  /\ utf8_cont(s[4])
                  /\ to_str_ok(SubSeq(s, 5, n))
             ELSE FALSE

\* A slice that ignores the declared count and takes the whole array.
from_raw_parts_whole(arr, count) == arr

\* std::slice::from_raw_parts(ptr, count): the first count entries.
from_raw_parts(arr, count) == SubSeq(arr, 1, count)

(***************************************************************************)
(* MessageLabel::from_raw and ObjectNameInfo::from_raw (debug.rs 357-394). *)
(* The result is [ok |-> FALSE] when the unwrap() of to_str() panics.      *)
(***************************************************************************)
\* A from_raw without the null test: CStr::from_ptr on a null pointer.
MessageLabel_from_raw_unchecked(utils_label) ==
    IF utils_label.pLabelName.null
    THEN [ok |-> FALSE]
    ELSE LET name == CStr_from_ptr(utils_label.pLabelName.mem)
         IN  IF to_str_ok(name)
             THEN [ok |-> TRUE, name |-> name, color |-> utils_label.color]
             ELSE [ok |-> FALSE]

MessageLabel_from_raw(utils_label) ==
    IF utils_label.pLabelName.null
    THEN [ok |-> TRUE, name |-> <<>>, color |-> utils_label.color]
    ELSE LET name == CStr_from_ptr(utils_label.pLabelName.mem)
         IN  IF to_str_ok(name)
             THEN [ok |-> TRUE, name |-> name, color |-> utils_label.color]
             ELSE [ok |-> FALSE]

\* A from_raw that fills the handle from the type field.
ObjectNameInfo_from_raw_type_as_handle(utils_label) ==
    IF utils_label.pObjectName.null
    THEN [ok |-> TRUE, ty |-> utils_label.objectType,
          handle |-> utils_label.objectType, name |-> <<>>]
    ELSE LET name == CStr_from_ptr(utils_label.pObjectName.mem)
         IN  IF to_str_ok(name)
             THEN [ok |-> TRUE, ty |-> utils_label.objectType,
                   handle |-> utils_label.objectType, name |-> name]
             ELSE [ok |-> FALSE]

ObjectNameInfo_from_raw(utils_label) ==
    IF utils_label.pObjectName.null
    THEN [ok |-> TRUE, ty |-> utils_label.objectType,
          handle |-> utils_label.objectHandle, name |-> <<>>]
    ELSE LET name == CStr_from_ptr(utils_label.pObjectName.mem)
         IN  IF to_str_ok(name)
             THEN [ok |-> TRUE, ty |-> utils_label.objectType,
                   handle |-> utils_label.objectHandle, name |-> name]
             ELSE [ok |-> FALSE]

\* .iter().map(from_raw).collect(): every entry converted, in order.
map_labels(arr) == [i \in 1..Len(arr) |-> MessageLabel_from_raw(arr[i])]
map_objects(arr) == [i \in 1..Len(arr) |-> ObjectNameInfo_from_raw(arr[i])]
all_ok(converted) == \A i \in 1..Len(converted) : converted[i].ok
strip_ok_label(c) == [name |-> c.name, color |-> c.color]
strip_ok_object(c) == [ty |-> c.ty, handle |-> c.handle, name |-> c.name]

\* A conversion that builds the severity from the type mask and the type
\* from the severity mask.
callback_message_swapped_masks(message_severity, ty, callback_data) ==
    LET message_id_name == CStr_from_ptr(callback_data.pMessageIdName.mem)
        description == CStr_from_ptr(callback_data.pMessage.mem)
        command_buffer_labels ==
            map_labels(from_raw_parts(callback_data.pCmdBufLabels,
                                      callback_data.cmdBufLabelCount))
        queue_labels ==
            map_labels(from_raw_parts(callback_data.pQueueLabels,
                                      callback_data.queueLabelCount))
        objects ==
            map_objects(from_raw_parts(callback_data.pObjects,
                                       callback_data.objectCount))
    IN  IF /\ to_str_ok(message_id_name)
           /\ to_str_ok(description)
           /\ all_ok(command_buffer_labels)
           /\ all_ok(queue_labels)
           /\ all_ok(objects)
        THEN [ok |-> TRUE,
              severity |-> ty,
              ty |-> message_severity,
              id_number |-> callback_data.messageIdNumber,
              id_name |-> message_id_name,
              description |-> description,
              queue_labels |->
                  [i \in 1..Len(queue_labels) |-> strip_ok_label(queue_labels[i])],
              command_buffer_labels |->
                  [i \in 1..Len(command_buffer_labels) |->
                      strip_ok_label(command_buffer_labels[i])],
              objects |-> [i \in 1..Len(objects) |-> strip_ok_object(objects[i])]]
        ELSE [ok |-> FALSE]

(***************************************************************************)
(* The conversion part of the trampoline (debug.rs 93-129): the Message    *)
(* built from the arguments, or [ok |-> FALSE] when an expect()/unwrap()   *)
(* panics.                                                                 *)
(***************************************************************************)
callback_message(message_severity, ty, callback_data) ==
    LET message_id_name == CStr_from_ptr(callback_data.pMessageIdName.mem)
        description == CStr_from_ptr(callback_data.pMessage.mem)
        command_buffer_labels ==
            map_labels(from_raw_parts(callback_data.pCmdBufLabels,
                                      callback_data.cmdBufLabelCount))
        queue_labels ==
            map_labels(from_raw_parts(callback_data.pQueueLabels,
                                      callback_data.queueLabelCount))
        objects ==
            map_objects(from_raw_parts(callback_data.pObjects,
                                       callback_data.objectCount))
    IN  IF /\ to_str_ok(message_id_name)
           /\ to_str_ok(description)
           /\ all_ok(command_buffer_labels)
           /\ all_ok(queue_labels)
           /\ all_ok(objects)
        THEN [ok |-> TRUE,
              severity |-> message_severity,
              ty |-> ty,
              id_number |-> callback_data.messageIdNumber,
              id_name |-> message_id_name,
              description |-> description,
              queue_labels |->
                  [i \in 1..Len(queue_labels) |-> strip_ok_label(queue_labels[i])],
              command_buffer_labels |->
                  [i \in 1..Len(command_buffer_labels) |->
                      strip_ok_label(command_buffer_labels[i])],
              objects |-> [i \in 1..Len(objects) |-> strip_ok_object(objects[i])]]
        ELSE [ok |-> FALSE]


(***************************************************************************)
(* State.                                                                  *)
(*   ext_debug_utils    instance.loaded_extensions().ext_debug_utils       *)
(*   owners             Arc<Instance> references held outside any          *)
(*                      DebugCallback                                      *)
(*   strong             strong count of the Arc<Instance>                  *)
(*   instance_destroyed the Instance has been dropped                      *)
(*   dc                 the DebugCallback objects, one per handle id       *)
(*   heap               the Box<Box<Fn(&Message)>> capsule of each handle  *)
(*   capsule            the user logic stored in each capsule              *)
(*   messengers         the foreign layer's live registrations, by token   *)
(*   next_token         the next VkDebugUtilsMessengerEXT the layer hands  *)
(*                      out                                                *)
(*   fcalls             calls made to the foreign layer's entry points     *)
(*   th                 each foreign thread's position in `callback`       *)
(*   delivered          invocations of user logic, in order                *)
(*   returns            completed trampoline invocations                   *)
(*   raised             number of events raised so far                     *)
(*   crashed            the process was terminated                         *)
(*   fa, fb, fres, fop  operands, result and operator of the last flag-set *)
(*                      operation (SpecFlags)                              *)
(*   cin, cout          arguments and result of one conversion of a        *)
(*                      foreign record (SpecConvert)                       *)
(***************************************************************************)
VARIABLES ext_debug_utils, owners, strong, instance_destroyed, dc, heap, capsule,
          messengers, next_token, fcalls, th, delivered, returns, raised, crashed,
          fa, fb, fres, fop, cin, cout

bridge_vars == <<ext_debug_utils, owners, strong, instance_destroyed, dc, heap,
                 capsule, messengers, next_token, fcalls, th, delivered, returns,
                 raised, crashed>>
flag_vars == <<fa, fb, fres, fop, cin, cout>>
vars == <<bridge_vars, flag_vars>>

VK_FALSE == 0

NoCallback ==
    [state |-> "Unregistered", result |-> "none", ctor |-> "none",
     filter |-> MessageFilter_none, instance |-> FALSE,
     debug_utils_messenger |-> 0, user_callback |-> 0]

IdleThread == [pc |-> "idle"]

(***************************************************************************)
(* User logic: the closures handed to DebugCallback::new.                  *)
(*   "quiet"   returns normally                                            *)
(*   "panics"  fails on every invocation                                   *)
(*   "example" the closure of examples/src/bin/debug.rs, which panics      *)
(*             ("no-impl") when the severity holds none of the four bits   *)
(***************************************************************************)
UserLogics == {"quiet", "panics", "example"}

example_closure_panics(msg) ==
    /\ MessageSeverity_eq(MessageSeverity_bitand(msg.severity, MessageSeverity_ERROR),
                          MessageSeverity_none)
    /\ MessageSeverity_eq(MessageSeverity_bitand(msg.severity, MessageSeverity_WARNING),
                          MessageSeverity_none)
    /\ MessageSeverity_eq(MessageSeverity_bitand(msg.severity, MessageSeverity_INFO),
                          MessageSeverity_none)
    /\ MessageSeverity_eq(MessageSeverity_bitand(msg.severity, MessageSeverity_VERBOSE),
                          MessageSeverity_none)

user_logic_panics(logic, msg) ==
    CASE logic = "quiet" -> FALSE
      [] logic = "panics" -> TRUE
      [] logic = "example" -> example_closure_panics(msg)

\* The filter of the example: every type, errors and warnings.
example_filter ==
    [types |-> MessageType_all,
     severity |-> MessageSeverity_bitor(MessageSeverity_ERROR, MessageSeverity_WARNING)]

\* The calls of DebugCallback::new the application makes.
NewRequests ==
    { [filter |-> MessageFilter_all, logic |-> "quiet"],
      [filter |-> example_filter, logic |-> "example"] }

\* The closures the application hands to DebugCallback::errors_and_warnings.
ShortcutLogics == {"panics"}


(***************************************************************************)
(* Events the foreign layer raises: the arguments of one trampoline call.  *)
(* A foreign array may hold more entries than its count declares.          *)
(***************************************************************************)
White == <<1, 1, 1, 1>>
Tint == <<9, 7, 10, 10>>

CallbackData(id_name, id_number, message, queue, nqueue, cmd, ncmd, objs, nobjs) ==
    [pMessageIdName |-> id_name, messageIdNumber |-> id_number, pMessage |-> message,
     queueLabelCount |-> nqueue, pQueueLabels |-> queue,
     cmdBufLabelCount |-> ncmd, pCmdBufLabels |-> cmd,
     objectCount |-> nobjs, pObjects |-> objs]

Label(name, color) == [pLabelName |-> name, color |-> color]
Object(ty, handle, name) ==
    [objectType |-> ty, objectHandle |-> handle, pObjectName |-> name]

\* severity ERROR, type GENERAL, id-name "X", description "Y", object {7, 0x42, "O"}
EvEndToEnd ==
    [severity |-> MessageSeverity_ERROR, ty |-> MessageType_GENERAL,
     data |-> CallbackData(CStrPtr(<<88>>), 1, CStrPtr(<<89>>),
                           <<>>, 0, <<>>, 0,
                           <<Object(7, 66, CStrPtr(<<79>>))>>, 1)]

\* an informational message whose type mask carries a bit outside the three
\* named ones: two queue labels (one unnamed) out of an array of three, one
\* command label, two objects (one unnamed), a two-byte UTF-8 description
EvLabels ==
    [severity |-> MessageSeverity_INFO,
     ty |-> u32_or(MessageType_PERFORMANCE, 8),
     data |-> CallbackData(CStrPtr(<<76>>), 7, CStrPtr(<<195, 169>>),
                           <<Label(CStrPtr(<<81, 49>>), White), Label(NullPtr, Tint),
                             Label(CStrPtr(<<255>>), White)>>, 2,
                           <<Label(CStrPtr(<<67>>), Tint)>>, 1,
                           <<Object(3, 5, NullPtr), Object(4, 6, CStrPtr(<<66>>))>>, 2)]

\* the description is not UTF-8
EvBadText ==
    [severity |-> MessageSeverity_ERROR, ty |-> MessageType_VALIDATION,
     data |-> CallbackData(CStrPtr(<<88>>), 2, CStrPtr(<<255>>),
                           <<>>, 0, <<>>, 0, <<>>, 0)]

ForeignEvents == {EvEndToEnd, EvLabels, EvBadText}

\* The foreign layer forwards an event to a messenger only when the event's
\* severity and type are in the masks given at registration.
layer_forwards(ev, infos) ==
    /\ u32_and(ev.severity, infos.messageSeverity) # 0
    /\ u32_and(ev.ty, infos.messageType) # 0

(***************************************************************************)
(* DebugCallback::new (debug.rs 74-167).                                   *)
(***************************************************************************)
extension_check_skipped(loaded) == FALSE
missing_extension(loaded) == ~loaded

infos_swapped(filter, user_data) ==
    [messageSeverity |-> filter.types, messageType |-> filter.severity,
     pUserData |-> user_data]
\* lines 141-149
create_infos(filter, user_data) ==
    [messageSeverity |-> filter.severity, messageType |-> filter.types,
     pUserData |-> user_data]

instance_not_cloned(count) == count
\* line 163: instance.clone()
instance_clone(count) == count + 1

\* A From conversion that hands the foreign error back as an error value.
DebugCallbackCreationError_returned(err) == "Err"

\* impl From<Error> for DebugCallbackCreationError (debug.rs 457-462):
\* panic!("unexpected error: {:?}", err)
DebugCallbackCreationError_from(err) == "Panic"

DebugCallback_new(h, filter, logic, ctor) ==
    /\ ~crashed
    /\ owners > 0
    /\ dc[h].result = "none"
    /\ \A g \in Handles : g < h => dc[g].result # "none"
    /\ UNCHANGED <<ext_debug_utils, owners, instance_destroyed, th, delivered,
                   returns, raised, crashed, flag_vars>>
    /\ IF missing_extension(ext_debug_utils)
       THEN /\ dc' = [dc EXCEPT ![h].result = "MissingExtension", ![h].ctor = ctor,
                                ![h].filter = filter]
            /\ UNCHANGED <<strong, heap, capsule, messengers, next_token, fcalls>>
       ELSE /\ capsule' = [capsule EXCEPT ![h] = logic]
            /\ \E created \in BOOLEAN :
                 LET infos == create_infos(filter, h)
                     call == [op |-> "Create", infos |-> infos, ok |-> created,
                              token |-> IF created THEN next_token ELSE 0]
                 IN  /\ fcalls' = Append(fcalls, call)
                     /\ IF created
                        THEN /\ messengers' =
                                  [k \in DOMAIN messengers \cup {next_token} |->
                                      IF k = next_token THEN infos ELSE messengers[k]]
                             /\ next_token' = next_token + 1
                             /\ heap' = [heap EXCEPT ![h] = "alive"]
                             /\ strong' = instance_clone(strong)
                             /\ dc' = [dc EXCEPT ![h] =
                                        [state |-> "Registered", result |-> "Ok",
                                         ctor |-> ctor, filter |-> filter,
                                         instance |-> TRUE,
                                         debug_utils_messenger |-> next_token,
                                         user_callback |-> h]]
                        ELSE \* check_errors(..)? converts the Error with From,
                             \* which panics; the unwinding frees the capsule
                             /\ heap' = [heap EXCEPT ![h] = "freed"]
                             /\ dc' = [dc EXCEPT ![h].result =
                                            DebugCallbackCreationError_from(
                                                "ERROR_OUT_OF_HOST_MEMORY"),
                                                 ![h].ctor = ctor,
                                                 ![h].filter = filter]
                             /\ UNCHANGED <<strong, messengers, next_token>>

\* DebugCallback::errors_and_warnings (debug.rs 173-178)
DebugCallback_errors_and_warnings(h, logic) ==
    DebugCallback_new(h, MessageFilter_errors_and_warnings, logic,
                      "errors_and_warnings")


(***************************************************************************)
(* Drop for DebugCallback (debug.rs 181-191), then the fields in their     *)
(* declaration order (debug.rs 64-68): instance, debug_utils_messenger     *)
(* (plain data), user_callback.                                            *)
(***************************************************************************)
drop_without_destroy(token) == <<>>
\* A release that reaches the deregistration call twice.
drop_destroys_twice(token) ==
    <<[op |-> "Destroy", token |-> token], [op |-> "Destroy", token |-> token]>>
\* lines 186-188: one DestroyDebugUtilsMessengerEXT call with the stored token
drop_calls(token) == <<[op |-> "Destroy", token |-> token]>>

destroyed_tokens(calls) == {calls[i].token : i \in 1..Len(calls)}

drop(h) ==
    /\ ~crashed
    /\ dc[h].state = "Registered"
    /\ LET calls == drop_calls(dc[h].debug_utils_messenger)
       IN  /\ fcalls' = fcalls \o calls
           /\ messengers' = [k \in DOMAIN messengers \ destroyed_tokens(calls) |->
                                messengers[k]]
    /\ dc' = [dc EXCEPT ![h].state = "Deregistered"]
    /\ UNCHANGED <<ext_debug_utils, owners, strong, instance_destroyed, heap, capsule,
                   next_token, th, delivered, returns, raised, crashed, flag_vars>>

\* Arc<Instance>::drop: the Instance is destroyed with the last reference.
arc_release ==
    /\ strong' = strong - 1
    /\ instance_destroyed' = (instance_destroyed \/ strong - 1 <= 0)

drop_field_instance(h) ==
    /\ ~crashed
    /\ dc[h].state = "Deregistered"
    /\ dc[h].instance
    /\ arc_release
    /\ dc' = [dc EXCEPT ![h].instance = FALSE]
    /\ UNCHANGED <<ext_debug_utils, owners, heap, capsule, messengers, next_token,
                   fcalls, th, delivered, returns, raised, crashed, flag_vars>>

drop_field_user_callback(h) ==
    /\ ~crashed
    /\ dc[h].state = "Deregistered"
    /\ ~dc[h].instance
    /\ heap[h] = "alive"
    /\ heap' = [heap EXCEPT ![h] = "freed"]
    /\ UNCHANGED <<ext_debug_utils, owners, strong, instance_destroyed, dc, capsule,
                   messengers, next_token, fcalls, th, delivered, returns, raised,
                   crashed, flag_vars>>

\* Another owner of the Arc<Instance> drops its reference.
drop_owner ==
    /\ ~crashed
    /\ owners > 0
    /\ owners' = owners - 1
    /\ arc_release
    /\ UNCHANGED <<ext_debug_utils, dc, heap, capsule, messengers, next_token, fcalls,
                   th, delivered, returns, raised, crashed, flag_vars>>

(***************************************************************************)
(* The foreign layer raises an event on one of its threads and calls the   *)
(* trampoline registered for a live messenger.                             *)
(***************************************************************************)
raise(t, k, ev) ==
    /\ ~crashed
    /\ raised < MaxEvents
    /\ th[t].pc = "idle"
    /\ k \in DOMAIN messengers
    /\ layer_forwards(ev, messengers[k])
    /\ raised' = raised + 1
    /\ th' = [th EXCEPT ![t] =
                [pc |-> "callback", message_severity |-> ev.severity, ty |-> ev.ty,
                 callback_data |-> ev.data, user_data |-> messengers[k].pUserData,
                 stale |-> FALSE, manual |-> FALSE, seq |-> raised + 1,
                 message |-> [ok |-> FALSE]]]
    /\ UNCHANGED <<ext_debug_utils, owners, strong, instance_destroyed, dc, heap,
                   capsule, messengers, next_token, fcalls, delivered, returns,
                   crashed, flag_vars>>

(***************************************************************************)
(* The trampoline `callback` (debug.rs 86-139).                            *)
(***************************************************************************)
\* A panic that leaves the extern "system" fn is undefined behaviour: the
\* unwinding enters the foreign caller's frames, or the process is aborted.
EscapeOutcomes == {"unwound_into_foreign", "aborted"}

\* Reading a freed capsule is undefined behaviour: the stale closure runs
\* as if alive, or the process is terminated.
FreedReadOutcomes == {"runs", "terminated"}

no_catch_unwind(panicked) ==
    IF panicked THEN [outcome |-> "unwound_into_foreign", status |-> -1]
    ELSE [outcome |-> "returned", status |-> VK_FALSE]
\* lines 133-137: catch_unwind discards the result; vk::FALSE is returned
callback_result(panicked) == [outcome |-> "returned", status |-> VK_FALSE]

\* The capsule after the trampoline used it, had the trampoline rebuilt the
\* owning box from the context pointer: freed when that box goes out of scope.
callback_takes_capsule(state, panicked) == "freed"

\* The capsule after the trampoline used it, had user logic been moved into
\* the guarded closure: freed by the unwinding of a panic.
callback_drops_capsule_on_panic(state, panicked) ==
    IF panicked THEN "freed" ELSE state

\* lines 90-91, 134: user logic is reached through a shared borrow of the
\* context pointer (&*user_callback), so the capsule is left as it was.
callback_capsule_after(state, panicked) == state

\* User logic called along with the trampoline, which does not wait for it.
delivered_detached(log, call) == <<call>> \o log

\* line 134: user_callback(&message) is a plain call made on the calling
\* thread, so invocations are logged in the order they are made.
delivered_append(log, call) == Append(log, call)

Completion(t, converted, user, panicked, res) ==
    [thread |-> t, seq |-> th[t].seq, handle |-> th[t].user_data,
     stale |-> th[t].stale, manual |-> th[t].manual,
     capsule |-> heap[th[t].user_data], converted |-> converted,
     user_called |-> user, user_panicked |-> panicked,
     outcome |-> res.outcome, status |-> res.status]

\* lines 90-129, and the entry into user logic at line 134
callback_enter(t) ==
    /\ ~crashed
    /\ th[t].pc = "callback"
    /\ LET msg == callback_message(th[t].message_severity, th[t].ty,
                                   th[t].callback_data)
           h == th[t].user_data
           call == [thread |-> t, seq |-> th[t].seq, handle |-> h,
                    logic |-> capsule[h], capsule |-> heap[h],
                    stale |-> th[t].stale, manual |-> th[t].manual,
                    message |-> msg]
       IN  IF ~msg.ok
           THEN \E o \in EscapeOutcomes :
                  /\ returns' = returns \cup {
                        Completion(t, FALSE, FALSE, FALSE,
                                   [outcome |-> o, status |-> -1])}
                  /\ crashed' = (o = "aborted")
                  /\ th' = [th EXCEPT ![t] = IdleThread]
                  /\ UNCHANGED delivered
           ELSE IF heap[h] = "alive"
           THEN /\ delivered' = delivered_append(delivered, call)
                /\ th' = [th EXCEPT ![t].pc = "in_user", ![t].message = msg]
                /\ UNCHANGED <<returns, crashed>>
           ELSE \E o \in FreedReadOutcomes :
                  IF o = "runs"
                  THEN /\ delivered' = delivered_append(delivered, call)
                       /\ th' = [th EXCEPT ![t].pc = "in_user", ![t].message = msg]
                       /\ UNCHANGED <<returns, crashed>>
                  ELSE /\ returns' = returns \cup {
                             Completion(t, TRUE, FALSE, FALSE,
                                        [outcome |-> "terminated", status |-> -1])}
                       /\ crashed' = TRUE
                       /\ th' = [th EXCEPT ![t] = IdleThread]
                       /\ UNCHANGED delivered
    /\ UNCHANGED <<ext_debug_utils, owners, strong, instance_destroyed, dc, heap,
                   capsule, messengers, next_token, fcalls, raised, flag_vars>>

\* lines 133-137: user logic ends, normally or by a panic
\* User logic whose capsule was freed while it was executing is undefined
\* behaviour as well, with the outcomes of FreedReadOutcomes.
callback_return(t) ==
    /\ ~crashed
    /\ th[t].pc = "in_user"
    /\ LET h == th[t].user_data
           panicked == user_logic_panics(capsule[h], th[t].message)
           res == callback_result(panicked)
       IN  \E o \in FreedReadOutcomes :
             /\ heap[h] = "alive" => o = "runs"
             /\ IF o = "runs"
                THEN /\ returns' = returns \cup {
                            Completion(t, TRUE, TRUE, panicked, res)}
                     /\ heap' = [heap EXCEPT ![h] =
                                    callback_capsule_after(heap[h], panicked)]
                     /\ UNCHANGED crashed
                ELSE /\ returns' = returns \cup {
                            Completion(t, TRUE, TRUE, FALSE,
                                       [outcome |-> "terminated", status |-> -1])}
                     /\ crashed' = TRUE
                     /\ UNCHANGED heap
             /\ th' = [th EXCEPT ![t] = IdleThread]
    /\ UNCHANGED <<ext_debug_utils, owners, strong, instance_destroyed, dc,
                   capsule, messengers, next_token, fcalls, delivered, raised,
                   flag_vars>>

\* A captured invocation is replayed with the context pointer of a handle
\* that was released.
replay_stale(t, h, ev) ==
    /\ ~crashed
    /\ raised < MaxEvents
    /\ th[t].pc = "idle"
    /\ dc[h].state = "Deregistered"
    /\ heap[h] = "freed"
    /\ raised' = raised + 1
    /\ th' = [th EXCEPT ![t] =
                [pc |-> "callback", message_severity |-> ev.severity, ty |-> ev.ty,
                 callback_data |-> ev.data, user_data |-> h,
                 stale |-> TRUE, manual |-> FALSE, seq |-> raised + 1,
                 message |-> [ok |-> FALSE]]]
    /\ UNCHANGED <<ext_debug_utils, owners, strong, instance_destroyed, dc, heap,
                   capsule, messengers, next_token, fcalls, delivered, returns,
                   crashed, flag_vars>>

(***************************************************************************)
(* DebugCallback::submit_debug_message, as the example calls it            *)
(* (examples debug.rs 133-170): the Message is turned into a foreign       *)
(* record, texts as NUL-terminated strings, and handed to the foreign      *)
(* layer's event-injection entry point, which invokes the trampoline of    *)
(* the handle's registration on the submitting thread whatever the         *)
(* registration's filter is.                                               *)
(***************************************************************************)
\* "DebugMsg", and the descriptions and object name cut to their initials
DebugMsg == <<68, 101, 98, 117, 103, 77, 115, 103>>

Message_default ==
    [ty |-> MessageType_none, severity |-> MessageSeverity_none, id_number |-> 0,
     id_name |-> <<>>, description |-> <<>>, queue_labels |-> <<>>,
     command_buffer_labels |-> <<>>, objects |-> <<>>]

\* submit_error of the example, and a submission no filter of the
\* application lets through
SubmittedMessages ==
    { [Message_default EXCEPT
          !.ty = MessageType_GENERAL, !.severity = MessageSeverity_ERROR,
          !.id_number = 0, !.id_name = DebugMsg, !.description = <<84, 33>>,
          !.objects = <<[ty |-> 100, handle |-> 0, name |-> <<68, 111>>]>>],
      [Message_default EXCEPT
          !.ty = MessageType_PERFORMANCE, !.severity = MessageSeverity_VERBOSE,
          !.id_number = 9, !.id_name = DebugMsg, !.description = <<195, 169>>,
          !.objects = <<[ty |-> 3, handle |-> 5, name |-> <<>>]>>] }

Message_to_raw(msg) ==
    CallbackData(CStrPtr(msg.id_name), msg.id_number, CStrPtr(msg.description),
                 [i \in 1..Len(msg.queue_labels) |->
                     Label(CStrPtr(msg.queue_labels[i].name), msg.queue_labels[i].color)],
                 Len(msg.queue_labels),
                 [i \in 1..Len(msg.command_buffer_labels) |->
                     Label(CStrPtr(msg.command_buffer_labels[i].name),
                           msg.command_buffer_labels[i].color)],
                 Len(msg.command_buffer_labels),
                 [i \in 1..Len(msg.objects) |->
                     Object(msg.objects[i].ty, msg.objects[i].handle,
                            CStrPtr(msg.objects[i].name))],
                 Len(msg.objects))

submit_debug_message(h, t, msg) ==
    /\ ~crashed
    /\ raised < MaxEvents
    /\ th[t].pc = "idle"
    /\ dc[h].state = "Registered"
    /\ LET data == Message_to_raw(msg)
           k == dc[h].debug_utils_messenger
       IN  /\ fcalls' = Append(fcalls, [op |-> "Submit", severity |-> msg.severity,
                                        ty |-> msg.ty, data |-> data, token |-> k])
           /\ th' = [th EXCEPT ![t] =
                       [pc |-> "callback", message_severity |-> msg.severity,
                        ty |-> msg.ty, callback_data |-> data,
                        user_data |-> messengers[k].pUserData,
                        stale |-> FALSE, manual |-> TRUE, seq |-> raised + 1,
                        message |-> [ok |-> FALSE]]]
    /\ raised' = raised + 1
    /\ UNCHANGED <<ext_debug_utils, owners, strong, instance_destroyed, dc, heap,
                   capsule, messengers, next_token, delivered, returns, crashed,
                   flag_vars>>


(***************************************************************************)
(* The flag-set operators applied to operands fa and fb.  An in-place      *)
(* operator leaves the new value of its left operand in fres.              *)
(***************************************************************************)
NamedSeverities ==
    {u32_or(u32_or(a, b), u32_or(c, d)) :
        a \in {0, MessageSeverity_VERBOSE}, b \in {0, MessageSeverity_INFO},
        c \in {0, MessageSeverity_WARNING}, d \in {0, MessageSeverity_ERROR}}
NamedTypes ==
    {u32_or(a, u32_or(b, c)) :
        a \in {0, MessageType_GENERAL}, b \in {0, MessageType_VALIDATION},
        c \in {0, MessageType_PERFORMANCE}}
\* with one bit the foreign layer may add to a mask
SeverityValues == NamedSeverities \cup {u32_or(x, 2) : x \in NamedSeverities}
TypeValues == NamedTypes \cup {u32_or(x, 8) : x \in NamedTypes}

apply(name, value) ==
    /\ fres' = value
    /\ fop' = name
    /\ UNCHANGED <<fa, fb, cin, cout, bridge_vars>>

type_operands == fa \in TypeValues /\ fb \in TypeValues
severity_operands == fa \in SeverityValues /\ fb \in SeverityValues

T_bitor == type_operands /\ apply("MessageType::bitor", MessageType_bitor(fa, fb))
T_bitor_assign ==
    type_operands /\ apply("MessageType::bitor_assign", MessageType_bitor_assign(fa, fb))
T_bitand == type_operands /\ apply("MessageType::bitand", MessageType_bitand(fa, fb))
T_bitand_assign ==
    type_operands /\ apply("MessageType::bitand_assign", MessageType_bitand_assign(fa, fb))
T_bitxor == type_operands /\ apply("MessageType::bitxor", MessageType_bitxor(fa, fb))
T_bitxor_assign ==
    type_operands /\ apply("MessageType::bitxor_assign", MessageType_bitxor_assign(fa, fb))
S_bitor ==
    severity_operands /\ apply("MessageSeverity::bitor", MessageSeverity_bitor(fa, fb))
S_bitor_assign ==
    severity_operands
    /\ apply("MessageSeverity::bitor_assign", MessageSeverity_bitor_assign(fa, fb))
S_bitand ==
    severity_operands /\ apply("MessageSeverity::bitand", MessageSeverity_bitand(fa, fb))
S_bitand_assign ==
    severity_operands
    /\ apply("MessageSeverity::bitand_assign", MessageSeverity_bitand_assign(fa, fb))
S_bitxor ==
    severity_operands /\ apply("MessageSeverity::bitxor", MessageSeverity_bitxor(fa, fb))
S_bitxor_assign ==
    severity_operands
    /\ apply("MessageSeverity::bitxor_assign", MessageSeverity_bitxor_assign(fa, fb))

(***************************************************************************)
(* Specifications.                                                         *)
(***************************************************************************)
InitBridge ==
    /\ ext_debug_utils \in BOOLEAN
    /\ owners = 1
    /\ strong = owners
    /\ instance_destroyed = FALSE
    /\ dc = [h \in Handles |-> NoCallback]
    /\ heap = [h \in Handles |-> "unallocated"]
    /\ capsule = [h \in Handles |-> "none"]
    /\ messengers = <<>>
    /\ next_token = 1
    /\ fcalls = <<>>
    /\ th = [t \in Threads |-> IdleThread]
    /\ delivered = <<>>
    /\ returns = {}
    /\ raised = 0
    /\ crashed = FALSE

NoConversion == [done |-> FALSE]

Init ==
    /\ InitBridge
    /\ fa = 0 /\ fb = 0 /\ fres = 0 /\ fop = "none"
    /\ cin = EvEndToEnd /\ cout = NoConversion

Next ==
    \/ \E h \in Handles, r \in NewRequests : DebugCallback_new(h, r.filter, r.logic, "new")
    \/ \E h \in Handles, l \in ShortcutLogics : DebugCallback_errors_and_warnings(h, l)
    \/ \E h \in Handles : drop(h)
    \/ \E h \in Handles : drop_field_instance(h)
    \/ \E h \in Handles : drop_field_user_callback(h)
    \/ drop_owner
    \/ \E t \in Threads, k \in DOMAIN messengers, ev \in ForeignEvents : raise(t, k, ev)
    \/ \E t \in Threads : callback_enter(t)
    \/ \E t \in Threads : callback_return(t)

Spec == Init /\ [][Next]_vars

\* The bridge driven by a test double that also replays captured invocations.
NextReplay ==
    \/ Next
    \/ \E t \in Threads, h \in Handles, ev \in ForeignEvents : replay_stale(t, h, ev)

SpecReplay == Init /\ [][NextReplay]_vars

\* The bridge in the example application, which registers its closure with
\* its filter and submits messages of its own next to the foreign layer's.
NextSubmit ==
    \/ \E h \in Handles : DebugCallback_new(h, example_filter, "example", "new")
    \/ \E h \in Handles : drop(h)
    \/ \E h \in Handles : drop_field_instance(h)
    \/ \E h \in Handles : drop_field_user_callback(h)
    \/ \E t \in Threads, k \in DOMAIN messengers, ev \in ForeignEvents : raise(t, k, ev)
    \/ \E h \in Handles, t \in Threads, msg \in SubmittedMessages :
          submit_debug_message(h, t, msg)
    \/ \E t \in Threads : callback_enter(t)
    \/ \E t \in Threads : callback_return(t)

SpecSubmit == Init /\ [][NextSubmit]_vars

InitFlags ==
    /\ InitBridge
    /\ ext_debug_utils = TRUE
    /\ \/ fa \in TypeValues /\ fb \in TypeValues
       \/ fa \in SeverityValues /\ fb \in SeverityValues
    /\ fres = 0
    /\ fop = "none"
    /\ cin = EvEndToEnd /\ cout = NoConversion

NextFlags ==
    \/ T_bitor \/ T_bitor_assign \/ T_bitand \/ T_bitand_assign
    \/ T_bitxor \/ T_bitxor_assign
    \/ S_bitor \/ S_bitor_assign \/ S_bitand \/ S_bitand_assign
    \/ S_bitxor \/ S_bitxor_assign

SpecFlags == InitFlags /\ [][NextFlags]_vars


(***************************************************************************)
(* The conversion applied to foreign records: arrays of up to MaxLen       *)
(* entries with every declared count, names that are NULL, ASCII, two-byte *)
(* UTF-8 or not UTF-8, and the two always-present texts in each of these   *)
(* forms but NULL.                                                         *)
(***************************************************************************)
MaxLen == 2

Arrays(entries) == UNION {[1..n -> entries] : n \in 0..MaxLen}

Texts == {CStrPtr(<<>>), CStrPtr(<<88>>), CStrPtr(<<195, 169>>), CStrPtr(<<237, 160, 128>>)}

Malformed == {CStrPtr(<<255>>), CStrPtr(<<237, 160, 128>>)}

QueueArrays ==
    Arrays({Label(NullPtr, Tint), Label(CStrPtr(<<81>>), White),
            Label(CStrPtr(<<255>>), White)})
CmdArrays == Arrays({Label(NullPtr, White), Label(CStrPtr(<<195, 169>>), Tint)})
ObjectArrays == Arrays({Object(7, 66, NullPtr), Object(8, 67, CStrPtr(<<79, 98>>))})

\* An array with each count the foreign layer may declare for it.
Counted(arrays) == UNION {{<<a, n>> : n \in 0..Len(a)} : a \in arrays}

\* Every pair of label arrays next to two objects, and every object array
\* next to two queue labels out of three and one command label.
ArrayRecords ==
    {CallbackData(CStrPtr(<<88>>), 1, CStrPtr(<<89>>), q[1], q[2], c[1], c[2],
                  <<Object(7, 66, NullPtr), Object(8, 67, CStrPtr(<<79, 98>>))>>, 2) :
        q \in Counted(QueueArrays), c \in Counted(CmdArrays)}
    \cup
    {CallbackData(CStrPtr(<<88>>), 1, CStrPtr(<<89>>),
                  <<Label(NullPtr, Tint), Label(CStrPtr(<<81>>), White),
                    Label(CStrPtr(<<255>>), White)>>, 2,
                  <<Label(CStrPtr(<<195, 169>>), Tint)>>, 1, o[1], o[2]) :
        o \in Counted(ObjectArrays)}

TextRecords ==
    {CallbackData(n, 5, m, <<>>, 0, <<>>, 0, <<>>, 0) : n \in Texts, m \in Texts}

ConvertInputs ==
    {[severity |-> MessageSeverity_WARNING, ty |-> MessageType_VALIDATION, data |-> d] :
        d \in ArrayRecords \cup TextRecords}

convert ==
    /\ ~cout.done
    /\ cout' = [done |-> TRUE,
                message |-> callback_message(cin.severity, cin.ty, cin.data)]
    /\ UNCHANGED <<cin, fa, fb, fres, fop, bridge_vars>>

InitConvert ==
    /\ InitBridge
    /\ ext_debug_utils = TRUE
    /\ fa = 0 /\ fb = 0 /\ fres = 0 /\ fop = "none"
    /\ cin \in ConvertInputs
    /\ cout = NoConversion

NextConvert == convert

SpecConvert == InitConvert /\ [][NextConvert]_vars

(***************************************************************************)
(* Properties.                                                             *)
(***************************************************************************)
\* The positions of the bits set in x.
Bits(x) == {i \in 0..30 : (x \div (2 ^ i)) % 2 = 1}

DestroyCalls(token) ==
    Cardinality({i \in 1..Len(fcalls) :
                    fcalls[i].op = "Destroy" /\ fcalls[i].token = token})

\* C1: every trampoline invocation that reached user logic while the
\* handle's capsule stayed alive, also when user logic panicked, ended by
\* returning vk::FALSE to the foreign caller: the panic did not leave the
\* trampoline.
C1_UserPanicCaught ==
    \A r \in returns :
        r.user_called /\ r.capsule = "alive" =>
            r.outcome = "returned" /\ r.status = VK_FALSE

\* user logic panicked on both invocations of a handle that is still
\* registered, and the process runs on
C1_Witness ==
    \E h \in Handles :
        /\ dc[h].state = "Registered"
        /\ ~crashed
        /\ Cardinality({r \in returns : r.handle = h /\ r.user_panicked}) = MaxEvents

\* C2: a failure raised by the conversion inside the trampoline does not
\* leave the trampoline: the invocation still returns to the foreign caller.
C2_ConversionFailureContained ==
    \A r \in returns : ~r.converted => r.outcome = "returned"

\* C3: without the extension, DebugCallback::new returns MissingExtension,
\* no call reaches the foreign layer and no handle exists.
C3_MissingExtensionNoForeignCall ==
    /\ ~ext_debug_utils =>
          /\ fcalls = <<>>
          /\ DOMAIN messengers = {}
          /\ \A h \in Handles :
                /\ dc[h].result \in {"none", "MissingExtension"}
                /\ dc[h].state = "Unregistered"
                /\ heap[h] = "unallocated"
    /\ \A h \in Handles :
          dc[h].result = "MissingExtension" =>
              /\ dc[h].state = "Unregistered"
              /\ ~dc[h].instance
              /\ \A i \in 1..Len(fcalls) :
                    fcalls[i].op = "Create" => fcalls[i].infos.pUserData # h

\* every handle was asked for and refused
C3_Witness ==
    \A h \in Handles : dc[h].result = "MissingExtension"

\* C4: a released handle has made exactly one DestroyDebugUtilsMessengerEXT
\* call with its token, and made it before giving up its Arc<Instance>; a
\* handle that is still registered has made none and holds the reference.
C4_OneDestroyBeforeArcRelease ==
    \A h \in Handles :
        dc[h].result = "Ok" =>
            LET n == DestroyCalls(dc[h].debug_utils_messenger)
            IN  /\ dc[h].state = "Registered" => n = 0 /\ dc[h].instance
                /\ dc[h].state = "Deregistered" => n = 1
                /\ ~dc[h].instance => n = 1 /\ dc[h].state = "Deregistered"

\* a handle was released completely
C4_Witness ==
    \E h \in Handles :
        /\ dc[h].result = "Ok"
        /\ dc[h].state = "Deregistered"
        /\ ~dc[h].instance
        /\ heap[h] = "freed"

\* C5: no invocation of user logic comes from a trampoline invocation that
\* was started with the context pointer of a released handle.
C5_NoDispatchAfterRelease ==
    \A i \in 1..Len(delivered) : ~delivered[i].stale

\* C6: while a handle is registered the Instance is alive, and a destroyed
\* Instance means every handle has been released.
C6_InstanceOutlivesHandle ==
    /\ \A h \in Handles :
          dc[h].state = "Registered" => strong > 0 /\ ~instance_destroyed
    /\ instance_destroyed =>
          \A h \in Handles : dc[h].state # "Registered" /\ ~dc[h].instance

\* a handle is registered and holds the only reference left
C6_Witness ==
    \E h \in Handles :
        dc[h].state = "Registered" /\ owners = 0 /\ strong = 1

\* C7: each in-place operator leaves its left operand equal to the result of
\* the two-operand operator, for both flag sets.
C7_InPlaceEqualsTwoOperand ==
    /\ fop = "MessageType::bitor_assign" => fres = MessageType_bitor(fa, fb)
    /\ fop = "MessageType::bitand_assign" => fres = MessageType_bitand(fa, fb)
    /\ fop = "MessageType::bitxor_assign" => fres = MessageType_bitxor(fa, fb)
    /\ fop = "MessageSeverity::bitor_assign" => fres = MessageSeverity_bitor(fa, fb)
    /\ fop = "MessageSeverity::bitand_assign" => fres = MessageSeverity_bitand(fa, fb)
    /\ fop = "MessageSeverity::bitxor_assign" => fres = MessageSeverity_bitxor(fa, fb)

\* C8: union is commutative, intersecting again with the left operand
\* changes nothing, and the symmetric difference holds exactly the bits set
\* in one operand only, which is the union minus the intersection.
C8_SetAlgebra ==
    /\ fop = "MessageType::bitor" => MessageType_eq(fres, MessageType_bitor(fb, fa))
    /\ fop = "MessageType::bitand" =>
          MessageType_eq(MessageType_bitand(fa, fres), fres)
    /\ fop = "MessageType::bitxor" =>
          /\ Bits(fres) = (Bits(fa) \cup Bits(fb)) \ (Bits(fa) \cap Bits(fb))
          /\ MessageType_eq(fres,
                MessageType_bitor(fa, fb) - MessageType_bitand(fa, fb))
    /\ fop = "MessageSeverity::bitor" =>
          MessageSeverity_eq(fres, MessageSeverity_bitor(fb, fa))
    /\ fop = "MessageSeverity::bitand" =>
          MessageSeverity_eq(MessageSeverity_bitand(fa, fres), fres)
    /\ fop = "MessageSeverity::bitxor" =>
          /\ Bits(fres) = (Bits(fa) \cup Bits(fb)) \ (Bits(fa) \cap Bits(fb))
          /\ MessageSeverity_eq(fres,
                MessageSeverity_bitor(fa, fb) - MessageSeverity_bitand(fa, fb))

\* a symmetric difference of two sets that overlap without being equal
C8_Witness ==
    /\ fop = "MessageType::bitxor"
    /\ fa = MessageType_GENERAL + MessageType_VALIDATION
    /\ fb = MessageType_VALIDATION + MessageType_PERFORMANCE
    /\ fres = MessageType_GENERAL + MessageType_PERFORMANCE

\* C9: for the severity and the type of every Message delivered to user
\* logic, none() is the identity of union and absorbs under intersection,
\* and all() absorbs under union and is the identity of intersection.
C9_NoneAllLaws ==
    \A i \in 1..Len(delivered) :
        LET t == delivered[i].message.ty
            v == delivered[i].message.severity
        IN  /\ MessageType_eq(MessageType_bitor(t, MessageType_none), t)
            /\ MessageType_eq(MessageType_bitand(t, MessageType_none), MessageType_none)
            /\ MessageType_eq(MessageType_bitor(t, MessageType_all), MessageType_all)
            /\ MessageType_eq(MessageType_bitand(t, MessageType_all), t)
            /\ MessageSeverity_eq(MessageSeverity_bitor(v, MessageSeverity_none), v)
            /\ MessageSeverity_eq(MessageSeverity_bitand(v, MessageSeverity_none),
                                  MessageSeverity_none)
            /\ MessageSeverity_eq(MessageSeverity_bitor(v, MessageSeverity_all),
                                  MessageSeverity_all)
            /\ MessageSeverity_eq(MessageSeverity_bitand(v, MessageSeverity_all), v)

\* C10: every CreateDebugUtilsMessengerEXT call carries the severity set of
\* the filter as its severity mask and the type set as its type mask; the
\* errors_and_warnings constructor registers severity {WARNING, ERROR} and
\* type {VALIDATION, GENERAL}.
C10_FilterPassedUnchanged ==
    \A i \in 1..Len(fcalls) :
        fcalls[i].op = "Create" =>
            LET infos == fcalls[i].infos
                h == infos.pUserData
            IN  /\ infos.messageSeverity = dc[h].filter.severity
                /\ infos.messageType = dc[h].filter.types
                /\ dc[h].ctor = "errors_and_warnings" =>
                      /\ infos.messageSeverity =
                            MessageSeverity_WARNING + MessageSeverity_ERROR
                      /\ infos.messageType =
                            MessageType_VALIDATION + MessageType_GENERAL

\* a handle registered through errors_and_warnings and one through new with
\* a filter whose two sets differ
C10_Witness ==
    /\ \E h \in Handles :
          dc[h].ctor = "errors_and_warnings" /\ dc[h].state = "Registered"
    /\ \E h \in Handles :
          /\ dc[h].ctor = "new" /\ dc[h].state = "Registered"
          /\ dc[h].filter = example_filter


(***************************************************************************)
(* The text a foreign name pointer denotes: nothing for NULL, else the     *)
(* bytes before the terminator.                                            *)
(***************************************************************************)
text_of(ptr) == IF ptr.null THEN <<>> ELSE SubSeq(ptr.mem, 1, Len(ptr.mem) - 1)

\* The declared part of each array and the two texts hold no malformed name.
declared_well_formed(d) ==
    /\ d.pMessageIdName \notin Malformed
    /\ d.pMessage \notin Malformed
    /\ \A i \in 1..d.queueLabelCount : d.pQueueLabels[i].pLabelName \notin Malformed
    /\ \A i \in 1..d.cmdBufLabelCount : d.pCmdBufLabels[i].pLabelName \notin Malformed
    /\ \A i \in 1..d.objectCount : d.pObjects[i].pObjectName \notin Malformed

(***************************************************************************)
(* C11: a record declaring N queue labels, K command labels and M objects  *)
(* converts to three sequences of exactly N, K and M elements, element i   *)
(* built from entry i of the matching array with equal fields, and what    *)
(* lies beyond a declared count has no influence on the conversion.        *)
(***************************************************************************)
C11_SequencesFollowCounts ==
    cout.done =>
        LET d == cin.data
            m == cout.message
        IN  /\ declared_well_formed(d) => m.ok
            /\ m.ok =>
                /\ Len(m.queue_labels) = d.queueLabelCount
                /\ Len(m.command_buffer_labels) = d.cmdBufLabelCount
                /\ Len(m.objects) = d.objectCount
                /\ \A i \in 1..d.queueLabelCount :
                       m.queue_labels[i] =
                           [name |-> text_of(d.pQueueLabels[i].pLabelName),
                            color |-> d.pQueueLabels[i].color]
                /\ \A i \in 1..d.cmdBufLabelCount :
                       m.command_buffer_labels[i] =
                           [name |-> text_of(d.pCmdBufLabels[i].pLabelName),
                            color |-> d.pCmdBufLabels[i].color]
                /\ \A i \in 1..d.objectCount :
                       m.objects[i] =
                           [ty |-> d.pObjects[i].objectType,
                            handle |-> d.pObjects[i].objectHandle,
                            name |-> text_of(d.pObjects[i].pObjectName)]

\* One queue label, two different command labels and two different objects
\* converted from a record whose queue entry beyond the count is malformed.
C11_Witness ==
    /\ cout.done
    /\ cout.message.ok
    /\ cin.data.queueLabelCount = 1
    /\ Len(cin.data.pQueueLabels) = 2
    /\ cin.data.pQueueLabels[2].pLabelName \in Malformed
    /\ cin.data.cmdBufLabelCount = 2
    /\ cin.data.pCmdBufLabels[1] # cin.data.pCmdBufLabels[2]
    /\ cin.data.objectCount = 2
    /\ cin.data.pObjects[1] # cin.data.pObjects[2]
    /\ Len(cout.message.queue_labels) = 1
    /\ Len(cout.message.command_buffer_labels) = 2
    /\ Len(cout.message.objects) = 2

(***************************************************************************)
(* C12: a label or object whose name pointer is NULL converts to the empty *)
(* text without failing the conversion, and its colour, or its type and    *)
(* handle, are those of the foreign entry.                                 *)
(***************************************************************************)
C12_NullNameIsEmptyText ==
    cout.done =>
        LET d == cin.data
            m == cout.message
            null_is_only_irregularity ==
                /\ declared_well_formed(d)
                /\ \/ \E i \in 1..d.queueLabelCount : d.pQueueLabels[i].pLabelName.null
                   \/ \E i \in 1..d.cmdBufLabelCount : d.pCmdBufLabels[i].pLabelName.null
                   \/ \E i \in 1..d.objectCount : d.pObjects[i].pObjectName.null
        IN  null_is_only_irregularity =>
                /\ m.ok
                /\ \A i \in 1..d.queueLabelCount :
                       d.pQueueLabels[i].pLabelName.null =>
                           /\ m.queue_labels[i].name = <<>>
                           /\ m.queue_labels[i].color = d.pQueueLabels[i].color
                /\ \A i \in 1..d.cmdBufLabelCount :
                       d.pCmdBufLabels[i].pLabelName.null =>
                           /\ m.command_buffer_labels[i].name = <<>>
                           /\ m.command_buffer_labels[i].color = d.pCmdBufLabels[i].color
                /\ \A i \in 1..d.objectCount :
                       d.pObjects[i].pObjectName.null =>
                           /\ m.objects[i].name = <<>>
                           /\ m.objects[i].ty = d.pObjects[i].objectType
                           /\ m.objects[i].handle = d.pObjects[i].objectHandle

\* A converted record with a NULL-named queue label next to a named one and
\* a NULL-named object.
C12_Witness ==
    /\ cout.done
    /\ cout.message.ok
    /\ cin.data.queueLabelCount = 2
    /\ cin.data.pQueueLabels[1].pLabelName.null
    /\ ~cin.data.pQueueLabels[2].pLabelName.null
    /\ cin.data.objectCount = 1
    /\ cin.data.pObjects[1].pObjectName.null
    /\ cout.message.queue_labels[1].name = <<>>
    /\ cout.message.queue_labels[2].name = <<81>>
    /\ cout.message.objects[1] = [ty |-> 7, handle |-> 66, name |-> <<>>]

(***************************************************************************)
(* C14: a registration the foreign layer refuses yields no handle and no   *)
(* error value: new panics, nothing is registered for it, its capsule is   *)
(* released by the unwinding, and every deregistration call the bridge     *)
(* ever makes names the token of an earlier successful registration.       *)
(***************************************************************************)
C14_ForeignFailurePanics ==
    /\ \A i \in 1..Len(fcalls) :
          (fcalls[i].op = "Create" /\ ~fcalls[i].ok) =>
              LET h == fcalls[i].infos.pUserData
              IN  /\ dc[h].result = "Panic"
                  /\ dc[h].state = "Unregistered"
                  /\ dc[h].debug_utils_messenger = 0
                  /\ ~dc[h].instance
                  /\ heap[h] = "freed"
                  /\ \A j \in 1..Len(fcalls) :
                        fcalls[j].op = "Create" /\ fcalls[j].ok =>
                            fcalls[j].infos.pUserData # h
    /\ \A i \in 1..Len(fcalls) :
          fcalls[i].op = "Destroy" =>
              \E j \in 1..(i - 1) :
                  /\ fcalls[j].op = "Create"
                  /\ fcalls[j].ok
                  /\ fcalls[j].token = fcalls[i].token

\* One registration refused and another accepted and later released: the
\* only deregistration call is the accepted one's.
C14_Witness ==
    \E h1, h2 \in Handles :
        /\ dc[h1].result = "Panic"
        /\ dc[h2].state = "Deregistered"
        /\ heap[h2] = "freed"
        /\ \E i \in 1..Len(fcalls) :
              fcalls[i].op = "Create" /\ ~fcalls[i].ok /\ fcalls[i].infos.pUserData = h1
        /\ Cardinality({i \in 1..Len(fcalls) : fcalls[i].op = "Destroy"}) = 1

\* Invocations of user logic made for the trampoline invocation numbered seq.
Deliveries(seq) == {i \in 1..Len(delivered) : delivered[i].seq = seq}

\* The record of thread t's invocation agrees with the Message built of it.
message_matches_record(t) ==
    /\ th[t].message.severity = th[t].message_severity
    /\ th[t].message.ty = th[t].ty
    /\ th[t].message.id_number = th[t].callback_data.messageIdNumber
    /\ th[t].message.id_name = text_of(th[t].callback_data.pMessageIdName)
    /\ th[t].message.description = text_of(th[t].callback_data.pMessage)

(***************************************************************************)
(* C13, as amended: every trampoline invocation on a handle whose capsule  *)
(* is alive and whose record's texts are UTF-8 invokes user logic exactly  *)
(* once, whatever the handle's filter says of the event, and the Message   *)
(* user logic sees has the severity and type of the invocation's           *)
(* arguments and the id number, id name and description of the record.     *)
(***************************************************************************)
C13_DecodableInvocationDelivered ==
    /\ \A r \in returns :
          (r.capsule = "alive" /\ r.converted) =>
              /\ r.user_called
              /\ Cardinality(Deliveries(r.seq)) = 1
    /\ \A r \in returns :
          (r.capsule = "alive" /\ ~r.converted) => Deliveries(r.seq) = {}
    /\ \A t \in Threads :
          th[t].pc = "in_user" =>
              /\ Cardinality(Deliveries(th[t].seq)) = 1
              /\ message_matches_record(t)
              /\ \E i \in Deliveries(th[t].seq) :
                    /\ delivered[i].message = th[t].message
                    /\ delivered[i].handle = th[t].user_data
                    /\ delivered[i].logic = capsule[th[t].user_data]

\* One event of the foreign layer went through a handle's trampoline and
\* returned, and user logic of the handle now runs on a submitted message
\* that the handle's filter excludes.
C13_Witness ==
    \E t \in Threads :
        LET h == th[t].user_data
        IN  /\ th[t].pc = "in_user"
            /\ th[t].manual
            /\ dc[h].state = "Registered"
            /\ ~layer_forwards([severity |-> th[t].message_severity, ty |-> th[t].ty],
                               create_infos(dc[h].filter, h))
            /\ \E r \in returns :
                  /\ r.handle = h
                  /\ ~r.manual
                  /\ r.user_called
                  /\ r.outcome = "returned"

(***************************************************************************)
(* C13, as stated: every trampoline invocation on a handle whose capsule   *)
(* is alive invokes user logic exactly once, whatever the handle's filter  *)
(* says of the event, and the Message user logic sees has the severity     *)
(* and type of the invocation's arguments and the id number, id name and   *)
(* description of the foreign record.                                      *)
(***************************************************************************)
C13_EveryInvocationDelivered ==
    /\ \A r \in returns :
          r.capsule = "alive" =>
              /\ r.user_called
              /\ Cardinality(Deliveries(r.seq)) = 1
    /\ \A t \in Threads :
          th[t].pc = "in_user" =>
              /\ Cardinality(Deliveries(th[t].seq)) = 1
              /\ message_matches_record(t)

(***************************************************************************)
(* C15: on each foreign thread user logic is invoked in the order the      *)
(* events were raised; an invocation of user logic precedes the return of  *)
(* its trampoline invocation, and that return precedes the invocation of   *)
(* user logic for the thread's next event.                                 *)
(***************************************************************************)
C15_PerThreadOrder ==
    /\ \A i, j \in 1..Len(delivered) :
          (i < j /\ delivered[i].thread = delivered[j].thread) =>
              /\ delivered[i].seq < delivered[j].seq
              /\ \E r \in returns :
                    r.seq = delivered[i].seq /\ r.thread = delivered[i].thread
    /\ \A r \in returns :
          r.user_called =>
              \E i \in 1..Len(delivered) :
                  delivered[i].seq = r.seq /\ delivered[i].thread = r.thread
    /\ \A t \in Threads :
          th[t].pc = "in_user" =>
              /\ delivered # <<>>
              /\ \A i \in 1..Len(delivered) :
                    delivered[i].thread = t => delivered[i].seq <= th[t].seq
              /\ \A r \in returns : r.seq # th[t].seq

\* Two events raised on one thread, both delivered and both returned.
C15_Witness ==
    \E t \in Threads :
        /\ Len(delivered) = 2
        /\ delivered[1].thread = t
        /\ delivered[2].thread = t
        /\ delivered[1].message # delivered[2].message
        /\ Cardinality({r \in returns : r.thread = t /\ r.outcome = "returned"}) = 2

(***************************************************************************)
(* C16: the trampoline leaves the capsule to the handle.  While a handle   *)
(* is registered, whatever invocations were made and however they ended,   *)
(* its capsule is alive and the context pointer of its registration is     *)
(* the capsule's address; the capsule of a handle is freed only by the     *)
(* handle's release, after its one deregistration call.                    *)
(***************************************************************************)
C16_CapsuleOwnedByHandle ==
    \A h \in Handles :
        /\ dc[h].state = "Registered" =>
              /\ heap[h] = "alive"
              /\ dc[h].user_callback = h
              /\ dc[h].debug_utils_messenger \in DOMAIN messengers
              /\ messengers[dc[h].debug_utils_messenger].pUserData = dc[h].user_callback
        /\ (dc[h].result = "Ok" /\ heap[h] # "alive") =>
              /\ heap[h] = "freed"
              /\ dc[h].state = "Deregistered"
              /\ ~dc[h].instance
              /\ DestroyCalls(dc[h].debug_utils_messenger) = 1

\* A handle still registered after every event went through its trampoline,
\* one of them failing in conversion or in user logic, next to a handle
\* whose capsule was freed by its release.
C16_Witness ==
    \E h1, h2 \in Handles :
        /\ dc[h1].state = "Registered"
        /\ heap[h1] = "alive"
        /\ Cardinality({r \in returns : r.handle = h1}) = MaxEvents
        /\ \E r \in returns : r.handle = h1 /\ (r.user_panicked \/ ~r.converted)
        /\ dc[h2].state = "Deregistered"
        /\ heap[h2] = "freed"

\* Thread t's user logic ends in a panic in this step, its capsule alive.
UserFailureStep(t) ==
    /\ th[t].pc = "in_user"
    /\ th'[t].pc = "idle"
    /\ heap[th[t].user_data] = "alive"
    /\ user_logic_panics(capsule[th[t].user_data], th[t].message)

(***************************************************************************)
(* C18: a step in which user logic fails changes nothing of the bridge:    *)
(* the handles with their states and tokens, the capsules, the foreign     *)
(* layer's registrations, the calls made to the foreign layer and the      *)
(* instance's reference count are as before and the process runs on; and   *)
(* any later event that converts and is dispatched to the same handle,     *)
(* its capsule alive, invokes user logic.                                  *)
(***************************************************************************)
C18_UserFailureChangesNothing ==
    /\ [][\A t \in Threads :
             UserFailureStep(t) =>
                 /\ dc' = dc
                 /\ heap' = heap
                 /\ capsule' = capsule
                 /\ messengers' = messengers
                 /\ next_token' = next_token
                 /\ fcalls' = fcalls
                 /\ strong' = strong
                 /\ instance_destroyed' = instance_destroyed
                 /\ ~crashed']_vars
    /\ [](\A r1, r2 \in returns :
             (/\ r1.user_panicked
              /\ r2.handle = r1.handle
              /\ r2.seq > r1.seq
              /\ r2.converted
              /\ r2.capsule = "alive") => r2.user_called)

\* User logic failed on a handle's first event and was invoked again for
\* its second, the handle registered throughout.
C18_Witness ==
    \E h \in Handles :
        /\ dc[h].state = "Registered"
        /\ heap[h] = "alive"
        /\ \E r1, r2 \in returns :
              /\ r1.handle = h /\ r2.handle = h
              /\ r1.seq < r2.seq
              /\ r1.user_panicked /\ r1.outcome = "returned"
              /\ r2.user_called

\* The fields of a Message the trampoline built, as the caller of
\* submit_debug_message wrote them.
as_submitted(m) ==
    [ty |-> m.ty, severity |-> m.severity, id_number |-> m.id_number,
     id_name |-> m.id_name, description |-> m.description,
     queue_labels |-> m.queue_labels,
     command_buffer_labels |-> m.command_buffer_labels, objects |-> m.objects]

C19_ConcurrentInvocationsIndependent ==
    /\ \A r \in returns :
          (r.capsule = "alive" /\ r.converted) =>
              /\ r.user_called
              /\ Cardinality(Deliveries(r.seq)) = 1
              /\ r.outcome = "returned"
              /\ r.status = VK_FALSE
    /\ \A t \in Threads :
          (th[t].pc = "in_user" /\ heap[th[t].user_data] = "alive") =>
              /\ message_matches_record(t)
              /\ ~crashed

(***************************************************************************)
(* C20: while a trampoline invocation made for a handle's registration is  *)
(* in progress, before or inside user logic, the handle's capsule is       *)
(* alive, whatever another thread does with the handle.                    *)
(***************************************************************************)
C20_CapsuleAliveDuringInvocation ==
    \A t \in Threads :
        (th[t].pc \in {"callback", "in_user"} /\ ~th[t].stale) =>
            heap[th[t].user_data] = "alive"


\* The calls of one kind made to the foreign layer so far.
CallsOf(op) == {i \in 1..Len(fcalls) : fcalls[i].op = op}

\* The handles in one state.
HandlesIn(state) == {h \in Handles : dc[h].state = state}

(***************************************************************************)
(* C21: whatever registrations and releases are made, a handle's state     *)
(* changes only from Unregistered to Registered and from Registered to     *)
(* Deregistered; the step that registers a handle makes one foreign        *)
(* registration call, which succeeds, and the step that releases it one    *)
(* deregistration call; every deregistration call carries a token that an  *)
(* earlier successful registration call returned, no token is              *)
(* deregistered twice, and the registrations live in the foreign layer     *)
(* are as many as the Registered handles, one for each.                    *)
(***************************************************************************)
C21_HandleLifecycle ==
    /\ [][\A h \in Handles :
             dc'[h].state # dc[h].state =>
                 \/ /\ dc[h].state = "Unregistered"
                    /\ dc'[h].state = "Registered"
                    /\ fcalls' = Append(fcalls, fcalls'[Len(fcalls')])
                    /\ fcalls'[Len(fcalls')].op = "Create"
                    /\ fcalls'[Len(fcalls')].ok
                    /\ fcalls'[Len(fcalls')].token = dc'[h].debug_utils_messenger
                    /\ fcalls'[Len(fcalls')].token \notin DOMAIN messengers
                 \/ /\ dc[h].state = "Registered"
                    /\ dc'[h].state = "Deregistered"
                    /\ dc'[h].debug_utils_messenger = dc[h].debug_utils_messenger
                    /\ fcalls' = Append(fcalls, [op |-> "Destroy",
                                                 token |-> dc[h].debug_utils_messenger])]_vars
    /\ [](/\ \A i \in CallsOf("Destroy") :
                /\ \E j \in CallsOf("Create") :
                      j < i /\ fcalls[j].ok /\ fcalls[j].token = fcalls[i].token
                /\ DestroyCalls(fcalls[i].token) = 1
          /\ \A i, j \in CallsOf("Create") :
                (fcalls[i].ok /\ fcalls[j].ok /\ i # j) =>
                    fcalls[i].token # fcalls[j].token
          /\ \A h \in Handles :
                Cardinality({i \in CallsOf("Create") :
                                fcalls[i].ok /\ fcalls[i].infos.pUserData = h})
                    = IF dc[h].state = "Unregistered" THEN 0 ELSE 1
          /\ Cardinality(DOMAIN messengers) = Cardinality(HandlesIn("Registered"))
          /\ DOMAIN messengers =
                {dc[h].debug_utils_messenger : h \in HandlesIn("Registered")})

\* One handle registered and released, a second one registered after it and
\* still live: two registration calls, one deregistration call, one live
\* registration.
C21_Witness ==
    \E h1, h2 \in Handles :
        /\ dc[h1].state = "Deregistered"
        /\ dc[h2].state = "Registered"
        /\ Cardinality(CallsOf("Create")) = 2
        /\ Cardinality(CallsOf("Destroy")) = 1
        /\ \E i \in CallsOf("Destroy") :
              /\ fcalls[i].token = dc[h1].debug_utils_messenger
              /\ \E j \in CallsOf("Create") : j > i /\ fcalls[j].ok
        /\ DOMAIN messengers = {dc[h2].debug_utils_messenger}

=============================================================================
